---- MODULE Spec2Model ----
(***************************************************************************)
(* Session state machine of DJClient (src/app.py): connection lifecycle,   *)
(* synchronous room requests over the socket.io channel, automatic rejoin  *)
(* on reconnect and the coupling between song events and mplayer playback. *)
(*                                                                         *)
(* Every method of DJClient is an operator over a frame record s holding   *)
(* the instance attributes, the state of the two collaborators (the        *)
(* socket.io channel and the mplayer processes) and the effects of the     *)
(* call in progress (events sent, log records, player calls, the exception *)
(* raised, the value returned).  A statement after a raise is skipped.     *)
(***************************************************************************)
EXTENDS Integers, Sequences, FiniteSets, TLC

VARIABLES
    socket,              \* self._socket is not None
    chan,                \* state of the SocketIO object last created
    open,                \* SocketIO objects created and not torn down
    room_data,           \* self._room_data
    last_num_anonymous,  \* self._last_num_anonymous
    player,              \* self._player
    play_audio,          \* self._play_audio
    procs,               \* mplayer processes started and not quit
    waiting,             \* the caller is blocked inside wait()
    lastOp,              \* the method or handler that ran last
    lastArg,             \* its inputs
    raised,              \* the exception that escaped it, or "none"
    sent,                \* the events it emitted on the channel
    logs,                \* the log records it wrote
    sink,                \* the calls it made on mplayer
    pre,                 \* the session state it started from
    notified,            \* count of the last listener-count notification, -1 if none
    run                  \* the current run of equal room:num_anonymous counts

vars == <<socket, chan, open, room_data, last_num_anonymous, player,
          play_audio, procs, waiting, lastOp, lastArg, raised, sent, logs,
          sink, pre, notified, run>>

---------------------------------------------------------------------------
(* Bounds *)

MaxCount == 2        \* room:num_anonymous reports counts 0..MaxCount
MaxChannels == 2     \* SocketIO objects that may be open at once

(* Configuration *)

Host == "dj"
Port == 80

---------------------------------------------------------------------------
(* Python values *)

None == [t |-> "None"]
Dict(f) == [t |-> "dict", v |-> f]
List(q) == [t |-> "list", v |-> q]
Str(x) == [t |-> "str", v |-> x]

IsDict(x) == x.t = "dict"
Keys(x) == DOMAIN x.v

\* d[k] = val
SetItem(d, k, val) ==
    Dict([x \in (DOMAIN d.v) \cup {k} |-> IF x = k THEN val ELSE d.v[x]])

\* bool(x) for None and dict values
Truthy(x) == IsDict(x) /\ Keys(x) # {}

\* str.strip() on a string held as a sequence of characters
RECURSIVE LStrip(_)
LStrip(q) == IF q # <<>> /\ Head(q) = " " THEN LStrip(Tail(q)) ELSE q

RECURSIVE RStrip(_)
RStrip(q) ==
    IF q # <<>> /\ q[Len(q)] = " " THEN RStrip(SubSeq(q, 1, Len(q) - 1)) ELSE q

Strip(q) == RStrip(LStrip(q))

\* sub in text, for strings held as sequences of characters
Contains(text, sub) ==
    \E i \in 0..(Len(text) - Len(sub)) : SubSeq(text, i + 1, i + Len(sub)) = sub

---------------------------------------------------------------------------
(* Inputs *)

Rooms == {"lounge", "den"}

Lounge == <<"L", "o", "u", "n", "g", "e">>
PaddedDen == <<" ", "D", "e", "n", " ">>

\* replies of the server to room:join
JoinReplies ==
    { Dict([name |-> Lounge]),
      Dict([name |-> PaddedDen]),
      Dict([error |-> "room full"]),
      None }

\* replies of the server to room:leave
LeaveReplies == { None, Dict([error |-> "not in a room"]) }

Counts == 0..MaxCount

\* a user record of room:users, room:user:join and room:user:leave
Alice == Dict([fullName |-> <<"A", "l", "i", "c", "e", " ">>,
               username |-> <<"a", "l">>])

\* payloads of room:users
UserLists == { List(<<>>), List(<<Alice>>) }

NoArg == [shortname |-> "", reply |-> None, num |-> -1, playing |-> FALSE,
          reason |-> None, users |-> None]

---------------------------------------------------------------------------
(* Frames *)

Frame ==
    [socket |-> socket, chan |-> chan, open |-> open, room_data |-> room_data,
     last_num |-> last_num_anonymous, player |-> player,
     play_audio |-> play_audio, procs |-> procs,
     sent |-> <<>>, logs |-> <<>>, sink |-> <<>>, raised |-> "none",
     ret |-> None]

Raise(s, e) == [s EXCEPT !.raised = e]
Failed(s) == s.raised # "none"
Log(s, level, msg) ==
    [s EXCEPT !.logs = Append(@, [level |-> level, msg |-> msg])]

---------------------------------------------------------------------------
(* DJClient *)

connected(s) == s.socket /\ s.chan \in {"fresh", "up"}

in_room(s) == connected(s) /\ s.room_data # None

\* ensure_connected without the check
ensure_connected_never_raises(s) == s

ensure_connected(s) ==
    IF ~connected(s) THEN Raise(s, "NotConnectedException") ELSE s

ensure_in_room(s) ==
    LET a == ensure_connected(s) IN
    IF Failed(a) THEN a
    ELSE IF ~in_room(a) THEN Raise(a, "NotInRoomException") ELSE a

_stop_streaming(s) ==
    IF s.player = None THEN s
    ELSE [Log(s, "debug", <<"Stopping stream.">>) EXCEPT
            !.sink = Append(@, [call |-> "quit"]),
            !.procs = @ - 1,
            !.player = None]

\* _start_streaming without the stop of the running player
_start_streaming_keeps_previous(s, url) ==
    IF ~s.play_audio THEN s
    ELSE
        LET b == Log(s, "debug", <<"Playing stream: ">> \o url)
            c == Log(b, "debug", <<"Args for mplayer: ">>)
        IN [c EXCEPT
              !.sink = @ \o <<[call |-> "Player"],
                              [call |-> "loadfile", url |-> url]>>,
              !.procs = @ + 1,
              !.player = [t |-> "Player", url |-> url]]

_start_streaming(s, url) ==
    IF ~s.play_audio THEN s
    ELSE
        LET a == IF s.player # None THEN _stop_streaming(s) ELSE s
            b == Log(a, "debug", <<"Playing stream: ">> \o url)
            c == Log(b, "debug", <<"Args for mplayer: ">>)
        IN [c EXCEPT
              !.sink = @ \o <<[call |-> "Player"],
                              [call |-> "loadfile", url |-> url]>>,
              !.procs = @ + 1,
              !.player = [t |-> "Player", url |-> url]]

_on_disconnect(s) ==
    LET a == Log(s, "info", <<"Disconnected from DJ at ", Host, Port>>)
        b == [a EXCEPT !.last_num = 0, !.socket = FALSE]
    IN _stop_streaming(b)

\* disconnect that tears the channel down without the cleanup
disconnect_teardown_only(s) ==
    IF ~connected(s) THEN s
    ELSE [s EXCEPT !.chan = "closed", !.open = @ - 1]

disconnect(s) ==
    IF ~connected(s) THEN s
    ELSE _on_disconnect([s EXCEPT !.chan = "closed", !.open = @ - 1])

\* connect that opens the new channel without disconnecting the old one
connect_no_disconnect(s) ==
    [s EXCEPT !.socket = TRUE, !.chan = "fresh", !.open = @ + 1]

connect(s) ==
    LET a == IF connected(s) THEN disconnect(s) ELSE s
    IN [a EXCEPT !.socket = TRUE, !.chan = "fresh", !.open = @ + 1]

_emit(s, event_name, params, ignore_error, reply) ==
    LET a == ensure_connected(s) IN
    IF Failed(a) THEN a
    ELSE
        LET b == Log(a, "debug", <<"Emitting event ", event_name>>)
            c == [b EXCEPT
                    !.sent = Append(@, [event |-> event_name,
                                        params |-> params])]
            cb_data == List(<<reply>>)
        IN IF ~ignore_error /\ IsDict(cb_data) /\ "error" \in Keys(cb_data)
           THEN Raise(c, "DJError")
           ELSE [c EXCEPT !.ret = cb_data.v[1]]

\* join_room without the merge of the short name into the reply
join_room_no_merge(s, shortname, reply) ==
    LET a == ensure_connected(s) IN
    IF Failed(a) THEN a
    ELSE
        LET b == Log(a, "debug", <<"Joining room ", shortname>>)
            c == _emit(b, "room:join", Str(shortname), FALSE, reply)
        IN IF Failed(c) THEN c
           ELSE
               LET d == [c EXCEPT !.room_data = c.ret, !.ret = None] IN
               IF ~IsDict(d.room_data) THEN Raise(d, "TypeError")
               ELSE IF "name" \notin Keys(d.room_data)
                    THEN Raise(d, "KeyError")
                    ELSE Log(d, "info",
                             <<"J", "o", "i", "n", "e", "d", " ",
                               "r", "o", "o", "m", " ", "\"">>
                             \o Strip(d.room_data.v["name"]) \o <<"\"">>)

join_room(s, shortname, reply) ==
    LET a == ensure_connected(s) IN
    IF Failed(a) THEN a
    ELSE
        LET b == Log(a, "debug", <<"Joining room ", shortname>>)
            c == _emit(b, "room:join", Str(shortname), FALSE, reply)
        IN IF Failed(c) THEN c
           ELSE
               LET d == [c EXCEPT !.room_data = c.ret, !.ret = None] IN
               IF ~IsDict(d.room_data) THEN Raise(d, "TypeError")
               ELSE
                   LET e == [d EXCEPT
                               !.room_data = SetItem(@, "shortname", shortname)]
                   IN IF "name" \notin Keys(e.room_data)
                      THEN Raise(e, "KeyError")
                      ELSE Log(e, "info",
                               <<"J", "o", "i", "n", "e", "d", " ",
                                 "r", "o", "o", "m", " ", "\"">>
                               \o Strip(e.room_data.v["name"]) \o <<"\"">>)

\* leave_room without the final _stop_streaming()
leave_room_no_stop(s, reply) ==
    LET a == ensure_connected(s) IN
    IF Failed(a) THEN a
    ELSE
        LET b == _emit(a, "room:leave", None, FALSE, reply) IN
        IF Failed(b) THEN b
        ELSE [b EXCEPT !.room_data = None, !.ret = None]

leave_room(s, reply) ==
    LET a == ensure_connected(s) IN
    IF Failed(a) THEN a
    ELSE
        LET b == _emit(a, "room:leave", None, FALSE, reply) IN
        IF Failed(b) THEN b
        ELSE _stop_streaming([b EXCEPT !.room_data = None, !.ret = None])

wait(s) ==
    IF ~s.socket THEN Raise(s, "Exception")
    ELSE Log(s, "debug", <<"Waiting">>)

_on_connect(s, reply) ==
    LET a == Log(s, "info", <<"Connected to DJ at ", Host, Port>>)
        b == _stop_streaming(a)
    IN IF Truthy(b.room_data)
       THEN LET shortname == b.room_data.v["shortname"]
                c == Log(b, "info", <<"Rejoining last room...">>)
            IN join_room(c, shortname, reply)
       ELSE b

_on_error(s, err) ==
    Log(s, "warning", IF err # None THEN <<"Error: ", err>> ELSE None)

\* _on_kick without the reset of _room_data
_on_kick_keeps_room(s, reason) ==
    LET b == IF reason # None
             THEN Log(s, "info", <<"Kicked from the room. Reason: ", reason>>)
             ELSE Log(s, "info", <<"Kicked from the room.">>)
    IN _stop_streaming(b)

_on_kick(s, reason) ==
    LET a == [s EXCEPT !.room_data = None]
        b == IF reason # None
             THEN Log(a, "info", <<"Kicked from the room. Reason: ", reason>>)
             ELSE Log(a, "info", <<"Kicked from the room.">>)
    IN _stop_streaming(b)

\* _on_num_anonymous without the early return on an equal count
_on_num_anonymous_always_notifies(s, num) ==
    LET a == [s EXCEPT !.last_num = num] IN
    IF num = 1
    THEN Log(a, "info", <<"There is currently 1 anonymous listener">>)
    ELSE Log(a, "info", <<"There are currently ", num,
                          " anonymous listeners">>)

_on_num_anonymous(s, num) ==
    IF num = s.last_num THEN s
    ELSE
        LET a == [s EXCEPT !.last_num = num] IN
        IF num = 1
        THEN Log(a, "info", <<"There is currently 1 anonymous listener">>)
        ELSE Log(a, "info", <<"There are currently ", num,
                              " anonymous listeners">>)

format_username(user) ==
    Strip(user.v["fullName"]) \o <<" (">> \o Strip(user.v["username"])
        \o <<")">>

_on_users(s, user_data) ==
    IF Len(user_data.v) > 0
    THEN Log(s, "info",
             <<"Users currently in the room: ">>
             \o format_username(user_data.v[1]))
    ELSE s

_on_user_join(s, user_data) ==
    Log(s, "info", format_username(user_data) \o <<" joined the room.">>)

_on_user_leave(s, user_data) ==
    Log(s, "info", format_username(user_data) \o <<" left the room.">>)

\* stream_url that builds the URL without the check of the room
stream_url_unchecked(s) ==
    [s EXCEPT !.ret = <<"http://", Host, ":", Port, "/stream/",
                        IF IsDict(s.room_data)
                        THEN s.room_data.v["shortname"] ELSE "None",
                        "/current">>]

stream_url(s) ==
    LET a == ensure_in_room(s) IN
    IF Failed(a) THEN a
    ELSE [a EXCEPT !.ret = <<"http://", Host, ":", Port, "/stream/",
                             a.room_data.v["shortname"], "/current">>]

\* _on_song_update that starts streaming whatever the playing flag says
_on_song_update_ignores_playing(s, playing) ==
    LET a == Log(s, "info", <<"playing">>)
        b == stream_url(a)
    IN IF Failed(b) THEN b
       ELSE _start_streaming([b EXCEPT !.ret = None], b.ret)

_on_song_update(s, playing) ==
    LET a == Log(s, "info", <<"playing">>) IN
    IF playing
    THEN LET b == stream_url(a) IN
         IF Failed(b) THEN b
         ELSE _start_streaming([b EXCEPT !.ret = None], b.ret)
    ELSE a

\* _on_song_stop that only logs
_on_song_stop_log_only(s) ==
    Log(s, "info", <<"No song is currently playing.">>)

_on_song_stop(s) ==
    _stop_streaming(Log(s, "info", <<"No song is currently playing.">>))

---------------------------------------------------------------------------
(* State machine *)

Snapshot ==
    [room_data |-> room_data, player |-> player, procs |-> procs,
     connected |-> connected(Frame), socket |-> socket, chan |-> chan,
     open |-> open, last_num |-> last_num_anonymous, notified |-> notified]

\* The call op with inputs arg took the session from the current state to r.
Apply(op, arg, r, w) ==
    /\ socket' = r.socket
    /\ chan' = r.chan
    /\ open' = r.open
    /\ room_data' = r.room_data
    /\ last_num_anonymous' = r.last_num
    /\ player' = r.player
    /\ procs' = r.procs
    /\ play_audio' = play_audio
    /\ waiting' = w
    /\ lastOp' = op
    /\ lastArg' = arg
    /\ raised' = r.raised
    /\ sent' = r.sent
    /\ logs' = r.logs
    /\ sink' = r.sink
    /\ pre' = Snapshot
    /\ notified' = IF op = "_on_num_anonymous" /\ r.logs # <<>>
                   THEN arg.num ELSE notified
    /\ run' = IF op # "_on_num_anonymous"
              THEN [count |-> -1, base |-> 0, notes |-> 0, len |-> 0]
              ELSE IF lastOp = "_on_num_anonymous" /\ run.count = arg.num
              THEN [run EXCEPT !.notes = @ + Len(r.logs), !.len = 2]
              ELSE [count |-> arg.num, base |-> last_num_anonymous,
                    notes |-> Len(r.logs), len |-> 1]

Init ==
    /\ socket = FALSE
    /\ chan = "none"
    /\ open = 0
    /\ room_data = None
    /\ last_num_anonymous = 0
    /\ player = None
    /\ play_audio \in BOOLEAN
    /\ procs = 0
    /\ waiting = FALSE
    /\ lastOp = "__init__"
    /\ lastArg = NoArg
    /\ raised = "none"
    /\ sent = <<>>
    /\ logs = <<>>
    /\ sink = <<>>
    /\ pre = [room_data |-> None, player |-> None, procs |-> 0,
              connected |-> FALSE, socket |-> FALSE, chan |-> "none",
              open |-> 0, last_num |-> 0, notified |-> -1]
    /\ notified = -1
    /\ run = [count |-> -1, base |-> 0, notes |-> 0, len |-> 0]

(* Calls of the caller; it makes none while it is blocked in wait(). *)

Connect ==
    /\ ~waiting
    /\ connect(Frame).open <= MaxChannels
    /\ Apply("connect", NoArg, connect(Frame), FALSE)

Disconnect ==
    /\ ~waiting
    /\ Apply("disconnect", NoArg, disconnect(Frame), FALSE)

JoinRoom ==
    /\ ~waiting
    /\ \E shortname \in Rooms, reply \in JoinReplies :
          Apply("join_room",
                [NoArg EXCEPT !.shortname = shortname, !.reply = reply],
                join_room(Frame, shortname, reply), FALSE)

LeaveRoom ==
    /\ ~waiting
    /\ \E reply \in LeaveReplies :
          Apply("leave_room", [NoArg EXCEPT !.reply = reply],
                leave_room(Frame, reply), FALSE)

Wait ==
    /\ ~waiting
    /\ LET r == wait(Frame) IN Apply("wait", NoArg, r, ~Failed(r))

\* socket.wait(seconds) returns, or a KeyboardInterrupt ends it
WaitReturn ==
    /\ waiting
    /\ waiting' = FALSE
    /\ UNCHANGED <<socket, chan, open, room_data, last_num_anonymous, player,
                   play_audio, procs, lastOp, lastArg, raised, sent, logs,
                   sink, pre, notified, run>>

(* The channel.  socket.wait() dispatches its events to the handlers       *)
(* registered by connect(); an exception that escapes a handler either     *)
(* ends the wait or is caught by the dispatcher.                           *)

Dispatch(op, arg, r) ==
    \E w \in (IF Failed(r) THEN {TRUE, FALSE} ELSE {TRUE}) : Apply(op, arg, r, w)

\* the connection is lost and the 'disconnect' handler is not called
ChannelDrop ==
    /\ chan \in {"fresh", "up"}
    /\ Apply("drop", NoArg, [Frame EXCEPT !.chan = "down"], waiting)

EvDisconnect ==
    /\ waiting
    /\ chan \in {"fresh", "up"}
    /\ Dispatch("_on_disconnect", NoArg,
                _on_disconnect([Frame EXCEPT !.chan = "down"]))

EvConnect ==
    /\ waiting
    /\ chan \in {"fresh", "down"}
    /\ \E reply \in JoinReplies :
          Dispatch("_on_connect", [NoArg EXCEPT !.reply = reply],
                   _on_connect([Frame EXCEPT !.chan = "up"], reply))

Delivering == waiting /\ chan = "up"

EvError ==
    /\ Delivering
    /\ \E err \in {None, Str("oops")} :
          Dispatch("_on_error", [NoArg EXCEPT !.reason = err],
                   _on_error(Frame, err))

EvKick ==
    /\ Delivering
    /\ \E reason \in {None, Str("spam")} :
          Dispatch("_on_kick", [NoArg EXCEPT !.reason = reason],
                   _on_kick(Frame, reason))

EvNumAnonymous ==
    /\ Delivering
    /\ \E num \in Counts :
          Dispatch("_on_num_anonymous", [NoArg EXCEPT !.num = num],
                   _on_num_anonymous(Frame, num))

EvUsers ==
    /\ Delivering
    /\ \E user_data \in UserLists :
          Dispatch("_on_users", [NoArg EXCEPT !.users = user_data],
                   _on_users(Frame, user_data))

EvUserJoin ==
    /\ Delivering
    /\ Dispatch("_on_user_join", [NoArg EXCEPT !.users = List(<<Alice>>)],
                _on_user_join(Frame, Alice))

EvUserLeave ==
    /\ Delivering
    /\ Dispatch("_on_user_leave", [NoArg EXCEPT !.users = List(<<Alice>>)],
                _on_user_leave(Frame, Alice))

EvSongUpdate ==
    /\ Delivering
    /\ \E playing \in BOOLEAN :
          Dispatch("_on_song_update", [NoArg EXCEPT !.playing = playing],
                   _on_song_update(Frame, playing))

EvSongStop ==
    /\ Delivering
    /\ Dispatch("_on_song_stop", NoArg, _on_song_stop(Frame))

Next ==
    \/ Connect
    \/ Disconnect
    \/ JoinRoom
    \/ LeaveRoom
    \/ Wait
    \/ WaitReturn
    \/ ChannelDrop
    \/ EvDisconnect
    \/ EvConnect
    \/ EvError
    \/ EvKick
    \/ EvNumAnonymous
    \/ EvUsers
    \/ EvUserJoin
    \/ EvUserLeave
    \/ EvSongUpdate
    \/ EvSongStop

Spec == Init /\ [][Next]_vars

---------------------------------------------------------------------------
(* Properties *)

HasError(reply) == IsDict(reply) /\ "error" \in Keys(reply)
HasName(reply) == IsDict(reply) /\ "name" \in Keys(reply)

JoinRequest(shortname) == [event |-> "room:join", params |-> Str(shortname)]

StreamUrl(shortname) ==
    <<"http://", Host, ":", Port, "/stream/", shortname, "/current">>

InfoLogs == SelectSeq(logs, LAMBDA l : l.level = "info")

\* C1: a room:join reply carrying an error field makes join_room fail with
\* DJError (the RemoteError of the specification) and leaves _room_data as
\* it was before the call.
C1_ErrorReplyRaisesAndKeepsRoom ==
    (lastOp = "join_room" /\ pre.connected /\ HasError(lastArg.reply))
        => (raised = "DJError" /\ room_data = pre.room_data)

\* C2: a handled disconnect event keeps the stored room, and the connect
\* event that follows it sends room:join for that room's short name and,
\* when the server accepts, leaves the session in that room.
C2_RejoinAfterDisconnectEvent ==
    /\ (lastOp = "_on_disconnect" /\ pre.room_data # None)
          => room_data = pre.room_data
    /\ (lastOp = "_on_connect" /\ ~pre.socket /\ Truthy(pre.room_data))
          => /\ sent = <<JoinRequest(pre.room_data.v["shortname"])>>
             /\ HasName(lastArg.reply)
                   => /\ in_room(Frame)
                      /\ room_data.v["shortname"]
                            = pre.room_data.v["shortname"]

\* C3: with audio enabled and the session in a room, room:song:update with
\* playing=true starts exactly one player, after exactly one quit of the
\* player that was running if there was one; never more than one mplayer
\* process runs.
C3_OnePlaybackSession ==
    /\ procs <= 1
    /\ (procs = 1) <=> (player # None)
    /\ (lastOp = "_on_song_update" /\ lastArg.playing /\ play_audio
            /\ pre.connected /\ pre.room_data # None)
          => LET url == StreamUrl(pre.room_data.v["shortname"])
                 start == <<[call |-> "Player"],
                            [call |-> "loadfile", url |-> url]>>
             IN /\ raised = "none"
                /\ sink = IF pre.player = None
                          THEN start
                          ELSE <<[call |-> "quit"]>> \o start
                /\ procs = 1

C3_Witness ==
    /\ lastOp = "_on_song_update"
    /\ lastArg.playing
    /\ pre.player # None
    /\ Len(sink) = 3
    /\ sink[1].call = "quit"
    /\ procs = 1

\* C4: after any completed method or handler, a player runs only if the
\* session is connected and has a stored room.
C4_NoGhostPlayback ==
    (lastOp \notin {"__init__", "drop"})
        => (procs > 0 => (connected(Frame) /\ room_data # None))

\* C5: a failure of the rejoin issued by the connect handler does not
\* escape _on_connect, and the channel stays connected.
C5_RejoinFailureAbsorbed ==
    lastOp = "_on_connect" => (raised = "none" /\ chan = "up")

\* C6: join_room called while not connected raises NotConnectedException,
\* emits nothing on the channel and leaves _room_data unchanged.
C6_JoinWhileDisconnected ==
    (lastOp = "join_room" /\ ~pre.connected)
        => /\ raised = "NotConnectedException"
           /\ sent = <<>>
           /\ room_data = pre.room_data

C6_Witness ==
    /\ lastOp = "join_room"
    /\ ~pre.connected
    /\ ~pre.socket
    /\ pre.room_data # None
    /\ raised = "NotConnectedException"

\* C7 as stated: after any call of leave_room, from any state, no player
\* runs and no room is stored.
C7_LeaveAlwaysClears ==
    lastOp = "leave_room"
        => (player = None /\ procs = 0 /\ room_data = None)

\* C7 amended: leave_room called while connected clears _room_data and
\* stops playback whatever the server replies; called while not connected
\* it raises NotConnectedException and changes nothing.
C7_LeaveWhileConnectedClears ==
    lastOp = "leave_room"
        => IF pre.connected
           THEN /\ raised = "none"
                /\ sent = <<[event |-> "room:leave", params |-> None]>>
                /\ player = None
                /\ procs = 0
                /\ room_data = None
           ELSE /\ raised = "NotConnectedException"
                /\ sent = <<>>
                /\ player = pre.player
                /\ procs = pre.procs
                /\ room_data = pre.room_data

C7_Witness ==
    /\ lastOp = "leave_room"
    /\ pre.connected
    /\ pre.player # None
    /\ pre.room_data # None
    /\ HasError(lastArg.reply)
    /\ player = None
    /\ room_data = None

\* C8: a kick event, with or without a reason, leaves no stored room and
\* no running player; a connect event handled with no stored room sends no
\* room:join.
C8_KickClearsRoomAndPlayback ==
    /\ lastOp = "_on_kick"
          => (room_data = None /\ player = None /\ procs = 0
              /\ raised = "none")
    /\ (lastOp = "_on_connect" /\ pre.room_data = None)
          => (sent = <<>> /\ room_data = None)

C8_Witness ==
    /\ lastOp = "_on_kick"
    /\ lastArg.reason = None
    /\ pre.player # None
    /\ pre.room_data # None
    /\ room_data = None
    /\ procs = 0

\* C9 as stated: a listener-count notification is emitted only when the
\* count differs from the count of the previous notification, and the same
\* count reported twice in a row gives exactly one notification.
C9_NotifyOnlyOnChangeOfNotified ==
    /\ (lastOp = "_on_num_anonymous" /\ logs # <<>>)
          => lastArg.num # pre.notified
    /\ run.len = 2 => run.notes = 1

\* C9 amended: a notification is emitted exactly when the reported count
\* differs from _last_num_anonymous, which starts at 0, takes every
\* reported count and is reset to 0 by the disconnect handler; the same
\* count reported twice in a row gives one notification if it differed
\* from _last_num_anonymous before the first report and none otherwise.
C9_NotifyOnChangeOfLastReceived ==
    /\ lastOp = "_on_num_anonymous"
          => /\ Len(logs) = (IF lastArg.num # pre.last_num THEN 1 ELSE 0)
             /\ \A i \in DOMAIN logs : logs[i].level = "info"
             /\ last_num_anonymous = lastArg.num
             /\ raised = "none"
    /\ run.len = 2
          => run.notes = (IF run.count # run.base THEN 1 ELSE 0)

C9_Witness ==
    /\ lastOp = "_on_num_anonymous"
    /\ run.len = 2
    /\ run.notes = 1
    /\ logs = <<>>
    /\ notified = lastArg.num

\* C10 as stated: a join answered with a room record that has a display
\* name stores the record with the requested short name merged in and
\* writes exactly one info record containing the display name.
C10_JoinStoresAndLogsName ==
    (lastOp = "join_room" /\ pre.connected /\ HasName(lastArg.reply))
        => /\ raised = "none"
           /\ room_data
                 = SetItem(lastArg.reply, "shortname", lastArg.shortname)
           /\ Len(InfoLogs) = 1
           /\ Contains(InfoLogs[1].msg, lastArg.reply.v["name"])

\* C10 amended: ... and writes exactly one info record containing the
\* display name with its leading and trailing whitespace stripped.
C10_JoinStoresAndLogsStrippedName ==
    (lastOp = "join_room" /\ pre.connected /\ HasName(lastArg.reply))
        => /\ raised = "none"
           /\ sent = <<JoinRequest(lastArg.shortname)>>
           /\ room_data
                 = SetItem(lastArg.reply, "shortname", lastArg.shortname)
           /\ Len(InfoLogs) = 1
           /\ Contains(InfoLogs[1].msg, Strip(lastArg.reply.v["name"]))

C10_Witness ==
    /\ lastOp = "join_room"
    /\ lastArg.shortname = "lounge"
    /\ lastArg.reply = Dict([name |-> Lounge])
    /\ room_data = Dict([shortname |-> "lounge", name |-> Lounge])
    /\ Len(InfoLogs) = 1

\* the attributes of the session and the state of its collaborators
Session(s) ==
    [socket |-> s.socket, chan |-> s.chan, open |-> s.open,
     room_data |-> s.room_data, last_num |-> s.last_num,
     player |-> s.player, procs |-> s.procs]

\* C11: room:song:stop leaves no running player: it quits the running one
\* if there is one and makes no player call otherwise; handling it again
\* changes nothing; the stored room and the connection are as before.
C11_SongStopStopsPlayback ==
    lastOp = "_on_song_stop"
        => /\ raised = "none"
           /\ player = None
           /\ procs = 0
           /\ sink = IF pre.player # None THEN <<[call |-> "quit"]>> ELSE <<>>
           /\ room_data = pre.room_data
           /\ socket = pre.socket
           /\ chan = pre.chan
           /\ LET again == _on_song_stop(Frame)
              IN /\ Session(again) = Session(Frame)
                 /\ again.sink = <<>>
                 /\ again.raised = "none"

C11_Witness ==
    /\ lastOp = "_on_song_stop"
    /\ pre.player # None
    /\ pre.procs = 1
    /\ player = None
    /\ procs = 0
    /\ sink = <<[call |-> "quit"]>>

\* C12: disconnect() changes nothing when the session is not connected;
\* otherwise it tears the channel down and leaves the session disconnected
\* with _last_num_anonymous = 0 and no running player, the stored room
\* unchanged, as the disconnect handler does.
C12_DisconnectCleansUp ==
    lastOp = "disconnect"
        => /\ raised = "none"
           /\ sent = <<>>
           /\ room_data = pre.room_data
           /\ IF pre.connected
              THEN /\ chan = "closed"
                   /\ open = pre.open - 1
                   /\ ~connected(Frame)
                   /\ socket = FALSE
                   /\ last_num_anonymous = 0
                   /\ player = None
                   /\ procs = 0
                   /\ sink = IF pre.player # None
                             THEN <<[call |-> "quit"]>> ELSE <<>>
              ELSE /\ chan = pre.chan
                   /\ open = pre.open
                   /\ socket = pre.socket
                   /\ last_num_anonymous = pre.last_num
                   /\ player = pre.player
                   /\ procs = pre.procs
                   /\ sink = <<>>
                   /\ logs = <<>>

C12_Witness ==
    /\ lastOp = "disconnect"
    /\ pre.connected
    /\ pre.player # None
    /\ pre.last_num # 0
    /\ pre.room_data # None
    /\ room_data = pre.room_data
    /\ last_num_anonymous = 0
    /\ player = None

Starts == SelectSeq(sink, LAMBDA c : c.call = "Player")

\* C13: a player is started only by a room:song:update with playing=true
\* and only when _play_audio is set; a room:song:update with playing=false
\* makes no player call and leaves the running player as it is.
C13_StartOnlyOnPlayingUpdate ==
    /\ Starts # <<>>
          => (lastOp = "_on_song_update" /\ lastArg.playing /\ play_audio)
    /\ player # None => play_audio
    /\ (lastOp = "_on_song_update" /\ ~lastArg.playing)
          => /\ raised = "none"
             /\ sink = <<>>
             /\ player = pre.player
             /\ procs = pre.procs

C13_Witness ==
    /\ lastOp = "_on_song_update"
    /\ ~lastArg.playing
    /\ pre.player # None
    /\ player = pre.player
    /\ procs = 1

\* C14: the synchronous request made by leave_room and join_room (neither
\* sets ignore_error) while connected fails with DJError when the reply is
\* a dict with an error field, and otherwise hands the reply back as it is.
C14_EmitRaisesOnErrorReply ==
    /\ (lastOp \in {"leave_room", "join_room"} /\ pre.connected
            /\ HasError(lastArg.reply))
          => raised = "DJError"
    /\ (lastOp \in {"leave_room", "join_room"} /\ pre.connected
            /\ ~HasError(lastArg.reply))
          => /\ raised # "DJError"
             /\ Len(sent) = 1
             /\ lastOp = "join_room" /\ IsDict(lastArg.reply)
                   => \A k \in Keys(lastArg.reply) :
                         room_data.v[k] = lastArg.reply.v[k]

Handlers ==
    {"_on_connect", "_on_disconnect", "_on_error", "_on_kick",
     "_on_num_anonymous", "_on_users", "_on_user_join", "_on_user_leave",
     "_on_song_update", "_on_song_stop"}

\* C15: no exception escapes a handler of an inbound event, in any state
\* of the session.
C15_HandlersNeverRaise ==
    lastOp \in Handlers => raised = "none"

\* C16: connect() never fails and leaves the session connected on a new
\* channel; called while connected it first runs the disconnect cleanup on
\* the old channel (player quit, _last_num_anonymous = 0, channel torn
\* down), so that the open channels do not grow in number and no player
\* from before the call still runs.
C16_ConnectReplacesChannel ==
    lastOp = "connect"
        => /\ raised = "none"
           /\ socket
           /\ chan = "fresh"
           /\ connected(Frame)
           /\ room_data = pre.room_data
           /\ sent = <<>>
           /\ pre.connected
                 => /\ open = pre.open
                    /\ pre.open = 1 => open = 1
                    /\ last_num_anonymous = 0
                    /\ player = None
                    /\ procs = 0
                    /\ sink = IF pre.player # None
                              THEN <<[call |-> "quit"]>> ELSE <<>>

C16_Witness ==
    /\ lastOp = "connect"
    /\ pre.connected
    /\ pre.open = 1
    /\ pre.player # None
    /\ pre.last_num # 0
    /\ open = 1
    /\ player = None
    /\ connected(Frame)

\* C17: wait() called while a channel created by connect() exists and has
\* not been torn down by disconnect() does not fail, whether or not that
\* channel is still connected.
C17_WaitNeedsOnlyAChannel ==
    (lastOp = "wait" /\ pre.chan \in {"fresh", "up", "down"})
        => raised = "none"

\* C18: a room:song:update with playing=true handled while the session is
\* in a room (connected, room stored) plays
\* http://host:port/stream/{shortname}/current for the stored short name;
\* handled while the session is not in a room it raises before any URL is
\* built and starts no player.
C18_StreamUrlOnlyInRoom ==
    /\ player # None => \E r \in Rooms : player.url = StreamUrl(r)
    /\ (lastOp = "_on_song_update" /\ lastArg.playing)
          => IF pre.connected /\ pre.room_data # None
             THEN /\ raised = "none"
                  /\ play_audio
                        => /\ player # None
                           /\ player.url
                                 = StreamUrl(pre.room_data.v["shortname"])
                           /\ sink[Len(sink)]
                                 = [call |-> "loadfile",
                                    url |-> StreamUrl(
                                        pre.room_data.v["shortname"])]
             ELSE /\ raised = IF pre.connected THEN "NotInRoomException"
                                               ELSE "NotConnectedException"
                  /\ sink = <<>>
                  /\ logs = <<[level |-> "info", msg |-> <<"playing">>]>>
                  /\ player = pre.player
                  /\ procs = pre.procs

C18_Witness ==
    /\ lastOp = "_on_song_update"
    /\ lastArg.playing
    /\ pre.connected
    /\ pre.room_data = None
    /\ play_audio
    /\ raised = "NotInRoomException"
    /\ player = None

\* C19: after a join_room that succeeded, a running player plays the
\* stream of the room now stored in _room_data.
C19_PlaybackFollowsStoredRoom ==
    (lastOp = "join_room" /\ raised = "none" /\ player # None)
        => player.url = StreamUrl(room_data.v["shortname"])

\* a room:join request was answered during the last call
JoinAnswered ==
    /\ lastOp \in {"join_room", "_on_connect"}
    /\ sent # <<>>

\* C20: _room_data is None or the record of a join the server accepted,
\* with its short name; a join answered with an error or with no record
\* leaves _room_data as it was.
C20_RoomIsLastAcceptedJoin ==
    /\ IsDict(room_data)
          => (HasName(room_data) /\ ~HasError(room_data)
              /\ "shortname" \in Keys(room_data))
    /\ (JoinAnswered /\ ~HasName(lastArg.reply))
          => room_data = pre.room_data
    /\ (JoinAnswered /\ HasName(lastArg.reply))
          => room_data
                = SetItem(lastArg.reply, "shortname", sent[1].params.v)

====
